---- MODULE Spec2Model ----
(***************************************************************************)
(* A model of scripts/render.py: the fetch -> render -> compile pipeline   *)
(* of the publishing tools, with the project directory as the state.       *)
(***************************************************************************)
EXTENDS Integers, Sequences, FiniteSets, TLC

(* ------------------------------ bounds -------------------------------- *)

\* The clock runs from 1 to MaxTime.
MaxTime == 2
\* A call of args() has at most MaxArgs arguments.
MaxArgs == 3
\* A table file holds at most MaxRows data rows.
MaxRows == 2
\* Where the clock runs, a table file holds at most MaxTimedRows data rows.
MaxTimedRows == 1
\* A project configuration holds at most MaxMappings mappings.
MaxMappings == 2

(* ---------------------------- constants ------------------------------- *)

INCLUDES_FILE == "includes.tex"
YAML_TAG == "(yaml)"

\* INCLUDE_FMT.format(output=output)
INCLUDE_FMT(output) == "\\input{rendered/" \o output \o "} \\clearpage\n"

(* ------------------------- rows and templates ------------------------- *)

\* A column header is a sequence of tokens (<<"Foo", "(yaml)">> is the header
\* "Foo(yaml)"); a row, as csv.DictReader yields it, is the sequence of its
\* (header, value) items, in the order of the header line.
Item(k, v) == [k |-> k, v |-> v]

NUMBER == <<"Number">>
NAME == <<"Name">>

\* row[key]
Get(row, key) ==
    LET at == {i \in 1..Len(row) : row[i].k = key}
    IN  row[CHOOSE i \in at : \A j \in at : j <= i].v

Keys(row) == {row[i].k : i \in 1..Len(row)}

\* The rows a table of the pipeline holds: a Number, a Name, no other column.
TableRows ==
    { <<Item(NUMBER, "1"), Item(NAME, "Alpha")>>,
      <<Item(NUMBER, "2"), Item(NAME, "Beta")>> }

RECURSIVE SeqsUpTo(_, _)
SeqsUpTo(S, n) ==
    IF n = 0 THEN {<<>>}
    ELSE LET shorter == SeqsUpTo(S, n - 1)
         IN  shorter \cup {Append(s, x) : s \in {t \in shorter : Len(t) = n - 1}, x \in S}

\* What a table file (or a remote sheet) can hold.
TableContents == SeqsUpTo(TableRows, MaxRows)
TimedContents == SeqsUpTo(TableRows, MaxTimedRows)

Tables == {"cards.csv", "items.csv"}
TemplateTexts == {"v1", "v2"}
TEMPLATE == "card.tex"

NoFile == [exists |-> FALSE, rows |-> <<>>]
File(rows) == [exists |-> TRUE, rows |-> rows]

(* --------------------- the formatting helpers ------------------------- *)

\* The values a template can hand to arg() and args(): what csv and
\* yaml.safe_load produce, and None for an absent value.
PyNone == [t |-> "none"]
PyStrV(s) == [t |-> "str", s |-> s]
PyInt(n) == [t |-> "int", n |-> n]
\* A float with one decimal place: whole.tenth
PyFloat(whole, tenth) == [t |-> "float", n |-> whole, d |-> tenth]
PyBool(b) == [t |-> "bool", b |-> b]
PyList(items) == [t |-> "list", items |-> items]

Digit(d) == <<"0", "1", "2", "3", "4", "5", "6", "7", "8", "9">>[d + 1]

RECURSIVE NatStr(_)
NatStr(n) == IF n < 10 THEN Digit(n) ELSE NatStr(n \div 10) \o Digit(n % 10)

\* str(content) of an int, a float or a bool
PyStr(content) ==
    CASE content.t = "int" ->
            IF content.n < 0 THEN "-" \o NatStr(-content.n) ELSE NatStr(content.n)
      [] content.t = "float" ->
            (IF content.n < 0 THEN "-" \o NatStr(-content.n) ELSE NatStr(content.n))
                \o "." \o Digit(content.d)
      [] content.t = "bool" -> IF content.b THEN "True" ELSE "False"

\* Python's truth value of content: `if content:`
Truthy(content) ==
    CASE content.t = "none" -> FALSE
      [] content.t = "str" -> content.s # ""
      [] content.t = "int" -> content.n # 0
      [] content.t = "float" -> content.n # 0 \/ content.d # 0
      [] content.t = "bool" -> content.b
      [] content.t = "list" -> content.items # <<>>
      [] content.t = "dict" -> DOMAIN content.items # {}

\* isinstance(content, int) or isinstance(content, float); bool is a subclass of int
IsIntOrFloat(content) == content.t \in {"int", "float", "bool"}

jinja_to_latex_arg(content) ==
    IF Truthy(content)
    THEN LET c == IF IsIntOrFloat(content) THEN PyStrV(PyStr(content)) ELSE content
         IN  IF c.t = "str" THEN "{" \o c.s \o "}" ELSE "{}"
    ELSE "{}"

RECURSIVE jinja_to_latex_args(_)
jinja_to_latex_args(args) ==
    IF args = <<>> THEN ""
    ELSE jinja_to_latex_arg(Head(args)) \o jinja_to_latex_args(Tail(args))

(* ------------------------ rendering one row --------------------------- *)

\* k.endswith(YAML_TAG)
EndsWithTag(k) == k # <<>> /\ k[Len(k)] = YAML_TAG

\* k.replace(YAML_TAG, ''): every occurrence of the tag goes
RECURSIVE ReplaceTag(_)
ReplaceTag(k) ==
    IF k = <<>> THEN <<>>
    ELSE IF Head(k) = YAML_TAG THEN ReplaceTag(Tail(k))
    ELSE <<Head(k)>> \o ReplaceTag(Tail(k))

IsSpace(tok) == tok \in {" ", "\t"}

\* k.strip(): leading and trailing white space goes
RECURSIVE Strip(_)
Strip(k) ==
    IF k = <<>> THEN <<>>
    ELSE IF IsSpace(Head(k)) THEN Strip(Tail(k))
    ELSE IF IsSpace(k[Len(k)]) THEN Strip(SubSeq(k, 1, Len(k) - 1))
    ELSE k

\* The cell texts of a tagged column, and what yaml.safe_load makes of each.
YamlError == [t |-> "error"]
YamlTexts == {"", "hello", "42", "a: 1", "[x, y]", "[x"}

yaml_safe_load(v) ==
    CASE v = "" -> PyNone
      [] v = "42" -> PyInt(42)
      [] v = "a: 1" -> [t |-> "dict", items |-> [a |-> PyInt(1)]]
      [] v = "[x, y]" -> PyList(<<PyStrV("x"), PyStrV("y")>>)
      [] v = "[x" -> YamlError
      [] OTHER -> PyStrV(v)

Put(f, k, v) == [x \in DOMAIN f \cup {k} |-> IF x = k THEN v ELSE f[x]]

EmptyMap == [x \in {} |-> ""]

\* The loop without its `if not v: continue`.
SkipsNothing(v) == FALSE

\* `if not v: continue`: whether the loop over row.items() passes over v
SkipsValue(v) == v = ""

\* The loop of render_template that fills parsed_cols, item by item; ok is
\* FALSE when yaml.safe_load raised.
RECURSIVE ParsedCols(_, _)
ParsedCols(items, parsed_cols) ==
    IF items = <<>> THEN [ok |-> TRUE, cols |-> parsed_cols]
    ELSE LET k == Head(items).k
             v == Head(items).v
         IN  IF SkipsValue(v) THEN ParsedCols(Tail(items), parsed_cols)
             ELSE IF EndsWithTag(k)
             THEN LET name == Strip(ReplaceTag(k))
                      loaded == yaml_safe_load(v)
                  IN  IF loaded = YamlError
                      THEN [ok |-> FALSE, cols |-> parsed_cols]
                      ELSE ParsedCols(Tail(items), Put(parsed_cols, name, loaded))
             ELSE ParsedCols(Tail(items), parsed_cols)

\* raw=row: the template is handed the row itself
RawCols(row) == [k \in Keys(row) |-> Get(row, k)]

\* template.render(raw=..., parsed=...): the text is a function of the
\* template and of the two field sets
TemplateRender(template, raw, parsed) ==
    [template |-> template, raw |-> raw, parsed |-> parsed]

\* "{0}-{1}.tex".format(row['Number'], row['Name'])
OutputFileName(row) == Get(row, NUMBER) \o "-" \o Get(row, NAME) \o ".tex"

(* -------------------------- configuration ----------------------------- *)

Sheet(table) == IF table = "cards.csv" THEN "Cards" ELSE "Items"

Entry(table) == [sheet |-> Sheet(table), table |-> table, template |-> TEMPLATE]

NoLatex == [includes |-> <<>>, enabled |-> FALSE]
Latex == [includes |-> <<"main.tex">>, enabled |-> TRUE]

\* The project records read_conifg can return.
Configs ==
    { [gsheets_url |-> u, mappings |-> m, outputs |-> [latex |-> l]] :
        u \in {"", "https://docs.example/d/1"},
        m \in SeqsUpTo({Entry(t) : t \in Tables}, MaxMappings),
        l \in {NoLatex, Latex} }

\* The tables a configuration maps.
Mapped(cfg) == {cfg.mappings[i].table : i \in 1..Len(cfg.mappings)}

(* ----------------------------- the state ------------------------------ *)

VARIABLES
    now,         \* the file system's clock
    config,      \* the project's record in projects.yaml
    projectDir,  \* whether the project directory exists
    tablesDir,   \* the tables directory: [exists, mtime]
    tableFiles,  \* the table files, by name: [exists, rows]
    template,    \* the text of the template file
    rendered,    \* the rendered directory: [exists, files]
    pdfDir,      \* whether the pdf directory exists
    lastrun,     \* the .lastrun file: [exists, mtime]
    dirty,       \* a table or template changed since .lastrun was last written
    ran,         \* when the last step was a run of main: how it went
    refreshed,   \* when the last step was a call of refresh_sources: how it ended
    downloads,   \* the downloads that call attempted, in order
    helperIn,    \* the arguments of a call of args(), or the row handed to a template
    helperOut    \* what came of them

fsVars == <<projectDir, tablesDir, tableFiles, template, rendered, pdfDir, lastrun>>
refreshVars == <<refreshed, downloads>>
helperVars == <<helperIn, helperOut>>
vars == <<now, config, fsVars, dirty, ran, refreshVars, helperVars>>

NotCalled == [called |-> FALSE]
NoDir == [exists |-> FALSE, mtime |-> 0]
Dir(mtime) == [exists |-> TRUE, mtime |-> mtime]
EmptyRendered == [exists |-> FALSE, files |-> EmptyMap]

(* ----------------------------- run tracker ---------------------------- *)

\* os.path.getmtime of .lastrun, 0.0 when the file is missing
get_last_run(marker) == IF marker.exists THEN marker.mtime ELSE 0

\* The marker made when missing and left alone otherwise: its mtime is the
\* time of the first run.
update_last_run_once(marker, time) ==
    IF marker.exists THEN marker ELSE [exists |-> TRUE, mtime |-> time]

\* open(last_run_file, 'w') and truncate: the file exists, its mtime is the
\* time of the call
update_last_run(marker, time) == [exists |-> TRUE, mtime |-> time]

(* ---------------------------- source fetcher -------------------------- *)

\* How one urlretrieve can end: the sheet is written to the table file, or
\* it raises before the file is opened, or it raises with part of it written.
DownloadOutcomes(sheets) ==
    { [ok |-> TRUE, wrote |-> TRUE, rows |-> r] : r \in sheets }
    \cup { [ok |-> FALSE, wrote |-> FALSE, rows |-> <<>>] }
    \cup { [ok |-> FALSE, wrote |-> TRUE, rows |-> <<>>] }

\* The state refresh_sources works on.
Tree(pdir, tdir, files, log, raised) ==
    [projectDir |-> pdir, tablesDir |-> tdir, tableFiles |-> files,
     downloads |-> log, raised |-> raised]

\* urllib.request.urlretrieve(url, output) inside its try/except: without a
\* tables directory the output file cannot be opened and the call raises.
Download(tree, entry, outcome, time) ==
    LET writes == tree.tablesDir.exists /\ outcome.wrote
        ok == tree.tablesDir.exists /\ outcome.ok
        creates == writes /\ ~tree.tableFiles[entry.table].exists
    IN  [tree EXCEPT
            !.tableFiles = IF writes
                           THEN [@ EXCEPT ![entry.table] = File(outcome.rows)]
                           ELSE @,
            !.tablesDir = IF creates THEN Dir(time) ELSE @,
            !.downloads = Append(@, [table |-> entry.table, ok |-> ok,
                                     wrote |-> writes, rows |-> outcome.rows])]

\* The loop ended by the first download that fails.
RECURSIVE DownloadLoopEnding(_, _, _, _, _)
DownloadLoopEnding(tree, mappings, outcomes, i, time) ==
    IF i > Len(mappings) THEN tree
    ELSE LET next == Download(tree, mappings[i], outcomes[i], time)
         IN  IF ~next.downloads[Len(next.downloads)].ok THEN next
             ELSE DownloadLoopEnding(next, mappings, outcomes, i + 1, time)

\* `for entry in config['mappings']`, from entry i on: a failed download is
\* caught and the loop goes on
RECURSIVE DownloadLoop(_, _, _, _, _)
DownloadLoop(tree, mappings, outcomes, i, time) ==
    IF i > Len(mappings) THEN tree
    ELSE DownloadLoop(Download(tree, mappings[i], outcomes[i], time),
                      mappings, outcomes, i + 1, time)

\* os.mkdir(project_dir); os.mkdir(TABLE_PATH_FMT.format("")) under
\* `except FileExistsError`.  When the project directory exists the first
\* mkdir raises FileExistsError, which is passed over, and the second mkdir
\* is not reached.  When it does not exist it is created, and formatting
\* TABLE_PATH_FMT with no project_dir raises KeyError, which is not caught.
MakeDirs(tree) ==
    IF tree.projectDir THEN tree
    ELSE [tree EXCEPT !.projectDir = TRUE, !.raised = TRUE]

refresh_sources(tree, cfg, outcomes, time) ==
    LET made == MakeDirs(tree)
    IN  IF made.raised THEN made
        ELSE IF cfg.gsheets_url = "" THEN made
        ELSE DownloadLoop(made, cfg.mappings, outcomes, 1, time)

(* ----------------------------- row renderer --------------------------- *)

\* The directory made when missing and kept with its files otherwise.
clear_rendered_keeping(dir) == [exists |-> TRUE, files |-> dir.files]

\* shutil.rmtree(rendered_dir) when it exists, then os.mkdir(rendered_dir)
clear_rendered(dir) == [exists |-> TRUE, files |-> EmptyMap]

\* What open(output_file_path, 'w') leaves when the render of the row raises.
EmptyFragment == TemplateRender("", EmptyMap, EmptyMap)

\* `for row in reader`: the include directive is appended to the manifest,
\* then the fragment is opened for writing and the row rendered into it.
RECURSIVE RenderRows(_, _, _)
RenderRows(files, rows, text) ==
    IF rows = <<>> THEN [ok |-> TRUE, files |-> files]
    ELSE LET row == Head(rows)
             output_file_name == OutputFileName(row)
             included == [files EXCEPT
                            ![INCLUDES_FILE] = Append(@, INCLUDE_FMT(output_file_name))]
             parsed == ParsedCols(row, EmptyMap)
         IN  IF ~parsed.ok
             THEN [ok |-> FALSE, files |-> Put(included, output_file_name, EmptyFragment)]
             ELSE RenderRows(Put(included, output_file_name,
                                 TemplateRender(text, RawCols(row), parsed.cols)),
                             Tail(rows), text)

\* open(includes_file_path, 'a'): the manifest is created when missing and
\* kept as it is otherwise
OpenManifest(files) ==
    IF INCLUDES_FILE \in DOMAIN files THEN files ELSE Put(files, INCLUDES_FILE, <<>>)

\* render_template: ok is FALSE when it raised (the table file is missing,
\* or a tagged cell does not parse)
render_template(files, table, text) ==
    LET opened == OpenManifest(files)
    IN  IF ~table.exists THEN [ok |-> FALSE, files |-> opened]
        ELSE RenderRows(opened, table.rows, text)

\* `for entry in config['mappings']` of render_templates, from entry i on
RECURSIVE RenderLoop(_, _, _, _, _)
RenderLoop(files, mappings, tables, text, i) ==
    IF i > Len(mappings) THEN [ok |-> TRUE, files |-> files]
    ELSE LET one == render_template(files, tables[mappings[i].table], text)
         IN  IF ~one.ok THEN one
             ELSE RenderLoop(one.files, mappings, tables, text, i + 1)

Max(a, b) == IF a >= b THEN a ELSE b

\* The newest of the mtimes os.walk(tables_dir) yields, taken twice: the
\* code walks tables_dir in both places and never the templates directory.
\* os.walk yields the directories, so this is the mtime of tables_dir itself.
NewestInput(tables_dir) == Max(tables_dir.mtime, tables_dir.mtime)

\* The comparison the other way round.
UpToDateReversed(last_run, mtime) == last_run < mtime

\* `if last_run > mtime`: nothing to do
UpToDate(last_run, mtime) == last_run > mtime

\* render_templates: what it did (skipped, rendered, or raised) and the
\* rendered directory it leaves.  Without a tables directory os.walk yields
\* nothing and max() raises ValueError.
render_templates(dir, tables_dir, tables, text, cfg, last_run) ==
    IF ~tables_dir.exists THEN [pass |-> "raised", rendered |-> dir]
    ELSE IF UpToDate(last_run, NewestInput(tables_dir))
    THEN [pass |-> "skipped", rendered |-> dir]
    ELSE LET out == RenderLoop(clear_rendered(dir).files, cfg.mappings, tables, text, 1)
         IN  [pass |-> IF out.ok THEN "rendered" ELSE "raised",
              rendered |-> [exists |-> TRUE, files |-> out.files]]

(* ---------------------------- build driver ---------------------------- *)

\* run_latex: the pdf directory is made if missing, pdflatex runs and its
\* exit status is reported, zero or not; under --look the preview tool is
\* started, and the run ends there when it cannot be.
run_latex(look, status, previewStarts) ==
    [pdfDir |-> TRUE, returncode |-> status, raised |-> look /\ ~previewStarts]

(* ------------------------------- main --------------------------------- *)

ArgSets == [refresh : BOOLEAN, force : BOOLEAN, look : BOOLEAN]

\* How a run went: how it ended (done, or raised), what render_templates did
\* (none, skipped, rendered, raised), whether --force was given, whether a
\* table or the template had changed since .lastrun was written when
\* render_templates was reached, whether a file of the rendered directory is
\* gone after it, and pdflatex's exit status (-1 when it did not run).
NoRun == [exit |-> "none", pass |-> "none", force |-> FALSE, stale |-> FALSE,
          dropped |-> FALSE, returncode |-> -1]

\* One run of main with the command line a, from its first statement to its
\* last or to the exception that ends it.  The downloads of the refresh are
\* stamped fetchTime, and the run ends at endTime.
Main(a, outcomes, status, previewStarts, fetchTime, endTime) ==
    /\ now <= fetchTime /\ fetchTime <= endTime
    /\ a.refresh \/ fetchTime = now
    /\ \E tree \in {IF a.refresh
                    THEN refresh_sources(Tree(projectDir, tablesDir, tableFiles,
                                              <<>>, FALSE),
                                         config, outcomes, fetchTime)
                    ELSE Tree(projectDir, tablesDir, tableFiles, <<>>, FALSE)} :
       \E out \in {IF tree.raised THEN [pass |-> "none", rendered |-> rendered]
                   ELSE render_templates(rendered, tree.tablesDir, tree.tableFiles,
                            template, config,
                            IF a.force THEN 0 ELSE get_last_run(lastrun))} :
       \E latex \in {IF out.pass \in {"skipped", "rendered"}
                        /\ config.outputs.latex.enabled
                     THEN run_latex(a.look, status, previewStarts)
                     ELSE [pdfDir |-> pdfDir, returncode |-> -1, raised |-> FALSE]} :
       \E done \in {out.pass \in {"skipped", "rendered"} /\ ~latex.raised},
          stale \in {dirty \/ tree.tableFiles # tableFiles} :
          /\ now' = endTime
          /\ projectDir' = tree.projectDir
          /\ tablesDir' = tree.tablesDir
          /\ tableFiles' = tree.tableFiles
          /\ rendered' = out.rendered
          /\ pdfDir' = latex.pdfDir
          /\ lastrun' = IF done THEN update_last_run(lastrun, endTime) ELSE lastrun
          /\ dirty' = IF done THEN FALSE ELSE stale
          /\ ran' = [exit |-> IF done THEN "done" ELSE "raised", pass |-> out.pass,
                     force |-> a.force, stale |-> stale,
                     dropped |-> \E f \in DOMAIN rendered.files :
                                    f \notin DOMAIN out.rendered.files,
                     returncode |-> latex.returncode]
          /\ UNCHANGED <<config, template, refreshVars, helperVars>>

(* --------------------------- the environment -------------------------- *)

\* Time passes.
Tick ==
    /\ now < MaxTime
    /\ now' = now + 1
    /\ ran' = NoRun
    /\ UNCHANGED <<config, fsVars, dirty, refreshVars, helperVars>>

\* The user saves a table: in place, which leaves the mtime of the tables
\* directory alone unless the file is new, or by moving a new file over it,
\* which sets it.
SaveTable(table, rows, byRename) ==
    /\ tablesDir.exists
    /\ tableFiles[table] # File(rows)
    /\ tableFiles' = [tableFiles EXCEPT ![table] = File(rows)]
    /\ tablesDir' = IF byRename \/ ~tableFiles[table].exists THEN Dir(now)
                    ELSE tablesDir
    /\ dirty' = TRUE
    /\ ran' = NoRun
    /\ UNCHANGED <<now, config, projectDir, template, rendered, pdfDir, lastrun,
                   refreshVars, helperVars>>

\* The user edits the template.
EditTemplate(text) ==
    /\ text # template
    /\ template' = text
    /\ dirty' = TRUE
    /\ ran' = NoRun
    /\ UNCHANGED <<now, config, projectDir, tablesDir, tableFiles, rendered, pdfDir,
                   lastrun, refreshVars, helperVars>>

(* ------------------- the pipeline, with its clock --------------------- *)

\* A project before its first run: the project directory may be missing, or
\* there without its tables directory, or there with its tables, still empty.
InitProject(configs) ==
    /\ now = 1
    /\ config \in configs
    /\ \/ projectDir = FALSE /\ tablesDir = NoDir
       \/ projectDir = TRUE /\ tablesDir = NoDir
       \/ projectDir = TRUE /\ tablesDir = Dir(1)
    /\ tableFiles = [t \in Tables |-> IF tablesDir.exists THEN File(<<>>) ELSE NoFile]
    /\ template \in TemplateTexts
    /\ rendered = EmptyRendered
    /\ pdfDir = FALSE
    /\ lastrun = [exists |-> FALSE, mtime |-> 0]
    /\ dirty = TRUE
    /\ ran = NoRun
    /\ refreshed = "none"
    /\ downloads = <<>>
    /\ helperIn = <<>>
    /\ helperOut = NotCalled

\* Where the clock matters the project maps at most one table, and the
\* tables are short.
TimedConfigs == {c \in Configs : Len(c.mappings) <= 1}

Init == InitProject(TimedConfigs)

\* What a run can meet: the command line, how each download ends, pdflatex's
\* exit status, whether the preview tool starts, and the time it takes.
Run(sheets) ==
    \E a \in ArgSets :
    \E outcomes \in IF a.refresh /\ config.gsheets_url # ""
                    THEN [1..Len(config.mappings) -> DownloadOutcomes(sheets)]
                    ELSE {<<>>} :
    \E status \in IF config.outputs.latex.enabled THEN {0, 1} ELSE {0} :
    \E previewStarts \in IF config.outputs.latex.enabled /\ a.look
                         THEN BOOLEAN ELSE {TRUE} :
    \E fetchTime \in now..MaxTime, endTime \in now..MaxTime :
        Main(a, outcomes, status, previewStarts, fetchTime, endTime)

Save(contents) ==
    \E t \in Mapped(config), rows \in contents, byRename \in BOOLEAN :
        SaveTable(t, rows, byRename)

Edit == \E text \in TemplateTexts : EditTemplate(text)

Next == Run(TimedContents) \/ Tick \/ Save(TimedContents) \/ Edit

Spec == Init /\ [][Next]_vars

(* ---------------- the pipeline, with tables of every size ------------- *)

\* Where the tables matter the project has no remote and no compiler.
LocalConfigs == {c \in Configs : c.gsheets_url = "" /\ ~c.outputs.latex.enabled}

InitRender == InitProject(LocalConfigs)

NextRender == Run(TableContents) \/ Tick \/ Save(TableContents) \/ Edit

SpecRender == InitRender /\ [][NextRender]_vars

(* ------------------------ refresh_sources alone ----------------------- *)

\* A project directory in any condition: missing, without its tables
\* directory, or with tables in it.
InitRefresh ==
    /\ now = 1
    /\ config \in Configs
    /\ \/ /\ projectDir \in BOOLEAN
          /\ tablesDir = NoDir
          /\ tableFiles = [t \in Tables |-> NoFile]
       \/ /\ projectDir = TRUE
          /\ tablesDir = Dir(1)
          /\ tableFiles \in [Tables -> {NoFile} \cup {File(r) : r \in TimedContents}]
    /\ template = "v1"
    /\ rendered = EmptyRendered
    /\ pdfDir = FALSE
    /\ lastrun = [exists |-> FALSE, mtime |-> 0]
    /\ dirty = TRUE
    /\ ran = NoRun
    /\ refreshed = "none"
    /\ downloads = <<>>
    /\ helperIn = <<>>
    /\ helperOut = NotCalled

\* A call of refresh_sources(project_dir, config) at the given time.
CallRefresh(outcomes, time) ==
    \E tree \in {refresh_sources(Tree(projectDir, tablesDir, tableFiles, <<>>, FALSE),
                                 config, outcomes, time)} :
        /\ now' = time
        /\ projectDir' = tree.projectDir
        /\ tablesDir' = tree.tablesDir
        /\ tableFiles' = tree.tableFiles
        /\ downloads' = tree.downloads
        /\ refreshed' = IF tree.raised THEN "raised" ELSE "returned"
        /\ UNCHANGED <<config, template, rendered, pdfDir, lastrun, dirty, ran,
                       helperVars>>

NextRefresh ==
    \E outcomes \in [1..Len(config.mappings) -> DownloadOutcomes(TimedContents)],
       time \in now..MaxTime :
        CallRefresh(outcomes, time)

SpecRefresh == InitRefresh /\ [][NextRefresh]_vars

(* ------------------- one row handed to a template --------------------- *)

FOO_YAML == <<"Foo", YAML_TAG>>
BAR_YAML == <<"Bar", " ", YAML_TAG>>
NOTE == <<"Note">>

\* The rows of a table with a Number, a Name, a plain column and two tagged
\* columns, any of them empty.
RowInputs ==
    { <<Item(NUMBER, n), Item(NAME, m), Item(NOTE, x), Item(FOO_YAML, f),
        Item(BAR_YAML, b)>> :
        n \in {"1", ""}, m \in {"Alpha", ""}, x \in {"", "see below"},
        f \in YamlTexts, b \in YamlTexts }

\* A project at rest, where only the helpers' variables matter.
AtRest ==
    /\ now = 1
    /\ config = [gsheets_url |-> "", mappings |-> <<>>, outputs |-> [latex |-> NoLatex]]
    /\ projectDir = TRUE
    /\ tablesDir = Dir(1)
    /\ tableFiles = [t \in Tables |-> File(<<>>)]
    /\ template = "v1"
    /\ rendered = EmptyRendered
    /\ pdfDir = FALSE
    /\ lastrun = [exists |-> FALSE, mtime |-> 0]
    /\ dirty = TRUE
    /\ ran = NoRun
    /\ refreshed = "none"
    /\ downloads = <<>>
    /\ helperOut = NotCalled

InitRow == AtRest /\ helperIn \in RowInputs

\* The body of `for row in reader` up to template.render(raw=row,
\* parsed=parsed_cols): the two field sets the template is handed, or the
\* exception of yaml.safe_load.
HandRow ==
    /\ ~helperOut.called
    /\ \E parsed \in {ParsedCols(helperIn, EmptyMap)} :
          helperOut' = [called |-> TRUE, ok |-> parsed.ok, raw |-> RawCols(helperIn),
                        parsed |-> parsed.cols]
    /\ UNCHANGED <<now, config, fsVars, dirty, ran, refreshVars, helperIn>>

SpecRow == InitRow /\ [][HandRow]_vars

(* ---------------------- the formatting helpers ------------------------ *)

ArgValues ==
    { PyNone, PyStrV(""), PyStrV("hello"), PyInt(42), PyInt(0), PyInt(-7),
      PyFloat(1, 5), PyFloat(0, 0), PyBool(TRUE), PyBool(FALSE),
      PyList(<<>>), PyList(<<PyInt(1)>>) }

InitArgs == AtRest /\ helperIn \in SeqsUpTo(ArgValues, MaxArgs)

\* A template calls args(v1, ..., vn); arg(v) is args(v).
CallArgs ==
    /\ ~helperOut.called
    /\ helperOut' = [called |-> TRUE, text |-> jinja_to_latex_args(helperIn)]
    /\ UNCHANGED <<now, config, fsVars, dirty, ran, refreshVars, helperIn>>

SpecArgs == InitArgs /\ [][CallArgs]_vars

(* ============================== claims =============================== *)

\* The rows a render pass over the mappings reads, in mapping order and then
\* in the order of each table.
RECURSIVE RowsOf(_, _)
RowsOf(mappings, tables) ==
    IF mappings = <<>> THEN <<>>
    ELSE tables[Head(mappings).table].rows \o RowsOf(Tail(mappings), tables)

PassRows == RowsOf(config.mappings, tableFiles)
Fragments == DOMAIN rendered.files \ {INCLUDES_FILE}
HasManifest == INCLUDES_FILE \in DOMAIN rendered.files
Passed == ran.pass \in {"skipped", "rendered"}

\* C1: a run whose inputs changed after the marker was last written, or that
\* is forced, clears the rendered directory and renders every mapping; a
\* pass is skipped only when neither is the case.
C1_ChangedInputsRender == (Passed /\ (ran.stale \/ ran.force)) => ran.pass = "rendered"

\* C2 as stated: after a completed run and no change to a table or the
\* template since, a run without --force renders nothing and leaves the
\* rendered directory as it was.
C2_UnchangedSkips ==
    [][(ran'.exit # "none" /\ ~ran'.stale /\ ~ran'.force)
        => (ran'.pass = "skipped" /\ rendered' = rendered)]_vars

\* C2 as amended: the same, when the marker written by the completed run is
\* strictly newer than the tables directory.
C2_UnchangedAndNewerSkips ==
    [][(ran'.exit # "none" /\ ~ran'.stale /\ ~ran'.force
          /\ get_last_run(lastrun) > tablesDir.mtime)
        => (ran'.pass = "skipped" /\ rendered' = rendered)]_vars

\* C2's case: a run that found nothing changed skipped its pass over a
\* rendered directory that holds a fragment.
C2_Witness ==
    /\ ran.exit = "done" /\ ran.pass = "skipped" /\ ~ran.stale /\ ~ran.force
    /\ Fragments # {}

\* C3: when a run has reached its end, whether its pass was skipped or not
\* and whatever pdflatex's exit status, the marker exists and its mtime is
\* the time the run ended.
C3_MarkerUpdated == ran.exit = "done" => (lastrun.exists /\ lastrun.mtime = now)

\* C3's case: a run after the first tick of the clock skipped its pass, its
\* pdflatex failed, and it reached its end.
C3_Witness ==
    /\ ran.exit = "done" /\ ran.pass = "skipped" /\ ran.returncode = 1
    /\ now > 1

\* C4: a pass over at least one mapping, whose tables hold n rows, leaves n
\* fragment files, named by Number and Name, and a manifest of n directives,
\* one per row in mapping and row order.
C4_OneFragmentPerRow ==
    (ran.pass = "rendered" /\ config.mappings # <<>>) =>
        /\ Cardinality(Fragments) = Len(PassRows)
        /\ Fragments = {OutputFileName(PassRows[i]) : i \in 1..Len(PassRows)}
        /\ HasManifest
        /\ rendered.files[INCLUDES_FILE] =
              [i \in 1..Len(PassRows) |-> INCLUDE_FMT(OutputFileName(PassRows[i]))]

\* C5: a call of refresh_sources with a remote that returns has attempted
\* one download per mapping, in mapping order, whichever of them failed, and
\* every table holds what the last download that wrote to it left, so the
\* sheet of a successful download unless a later download wrote over it.
C5_EveryDownloadAttempted ==
    (refreshed = "returned" /\ config.gsheets_url # "") =>
        /\ Len(downloads) = Len(config.mappings)
        /\ \A i \in 1..Len(downloads) :
              /\ downloads[i].table = config.mappings[i].table
              /\ (downloads[i].ok /\ ~\E j \in (i + 1)..Len(downloads) :
                                        /\ downloads[j].table = downloads[i].table
                                        /\ downloads[j].wrote)
                    => tableFiles[downloads[i].table] = File(downloads[i].rows)

\* C5's case: the first of two downloads failed and the second one wrote its
\* sheet to the other table.
C5_Witness ==
    /\ refreshed = "returned"
    /\ Len(downloads) = 2
    /\ ~downloads[1].ok /\ downloads[2].ok
    /\ downloads[1].table # downloads[2].table
    /\ downloads[2].rows # <<>>
    /\ tableFiles[downloads[2].table] = File(downloads[2].rows)

\* C6: a call of refresh_sources returns, with the project directory and
\* its tables directory in place, from every starting state.
C6_DirectoriesEnsured ==
    refreshed # "none" => (refreshed = "returned" /\ projectDir /\ tablesDir.exists)

\* C7: after a pass that is not skipped the manifest exists.
C7_ManifestExists == ran.pass = "rendered" => HasManifest

\* C8 as stated: a column whose value is the empty string has no entry in
\* the raw field set and none in the parsed field set.
C8_EmptyAbsentFromBoth ==
    (helperOut.called /\ helperOut.ok) =>
        \A i \in 1..Len(helperIn) :
            helperIn[i].v = "" =>
                /\ helperIn[i].k \notin DOMAIN helperOut.raw
                /\ Strip(ReplaceTag(helperIn[i].k)) \notin DOMAIN helperOut.parsed

\* C8 as amended: such a column has no entry in the parsed field set, and
\* in the raw field set it has one, the empty string.
C8_EmptyAbsentFromParsed ==
    (helperOut.called /\ helperOut.ok) =>
        \A i \in 1..Len(helperIn) :
            helperIn[i].v = "" =>
                /\ helperIn[i].k \in DOMAIN helperOut.raw
                /\ helperOut.raw[helperIn[i].k] = ""
                /\ Strip(ReplaceTag(helperIn[i].k)) \notin DOMAIN helperOut.parsed

\* C8's case: a row with an empty tagged column and a tagged column that
\* was parsed.
C8_Witness ==
    /\ helperOut.called /\ helperOut.ok
    /\ Get(helperIn, FOO_YAML) = ""
    /\ <<"Bar">> \in DOMAIN helperOut.parsed

\* What C9 says arg returns: {} for an empty or absent value, the text of a
\* number or a string in braces.
ClaimedArg(v) ==
    IF v.t = "none" \/ (v.t = "str" /\ v.s = "") THEN "{}"
    ELSE IF v.t = "str" THEN "{" \o v.s \o "}"
    ELSE "{" \o PyStr(v) \o "}"

RECURSIVE ClaimedArgs(_)
ClaimedArgs(values) ==
    IF values = <<>> THEN ""
    ELSE ClaimedArg(Head(values)) \o ClaimedArgs(Tail(values))

\* C9: over absent values, strings and numbers, args returns the claimed
\* fragments of its arguments, concatenated in order.
C9_ArgsFormatsEach ==
    (helperOut.called
       /\ \A i \in 1..Len(helperIn) : helperIn[i].t \in {"none", "str", "int", "float"})
        => helperOut.text = ClaimedArgs(helperIn)

\* C10: after a pass that is not skipped every file of the rendered
\* directory is the manifest or the fragment of a row of this pass, rendered
\* with the template as it is now, and the manifest holds one directive per
\* row of this pass and no other.
C10_FullReset ==
    ran.pass = "rendered" =>
        /\ \A f \in Fragments :
              \E i \in 1..Len(PassRows) :
                  /\ f = OutputFileName(PassRows[i])
                  /\ rendered.files[f] =
                        TemplateRender(template, RawCols(PassRows[i]),
                                       ParsedCols(PassRows[i], EmptyMap).cols)
        /\ HasManifest =>
              /\ Len(rendered.files[INCLUDES_FILE]) = Len(PassRows)
              /\ \A j \in 1..Len(PassRows) :
                    rendered.files[INCLUDES_FILE][j]
                        = INCLUDE_FMT(OutputFileName(PassRows[j]))

\* C10's case: a pass did away with a file an earlier pass had left, and
\* wrote fragments of its own.
C10_Witness == ran.pass = "rendered" /\ ran.dropped /\ Fragments # {}

====
